---- MODULE Spec2Model ----
(***************************************************************************)
(* Verification model of the ddft Gaussian-integral / Hamiltonian code:    *)
(*   - the equilibrium (fixed-point) solver of spec section 4.7,           *)
(*   - Ecoeff: the R-coefficient recursion and its caches, the packing of  *)
(*     Cartesian powers (src/ddft/hamiltons/hmolcgauss_gen.py),            *)
(*   - HamiltonMoleculeCGaussGenerator: construction, get_hamiltonian,     *)
(*     dm2dens, getparamnames,                                             *)
(*   - BeckeMultiGrid.getparams / setparams                                *)
(*     (src/ddft/grids/multiatomsgrid.py).                                 *)
(* Floating-point tensors are modelled by integers (fixed point); every    *)
(* tensor operation that the code performs elementwise is performed        *)
(* elementwise on integer matrices.                                        *)
(***************************************************************************)
EXTENDS Integers, Sequences, FiniteSets, TLC

VARIABLES
    \* ---- equilibrium solver (spec 4.7) ----
    eq_cfg,      \* [map, x, y0, tol, maxiter]: the solver's inputs
    eq_state,    \* "Iterating" | "Converged" | "Exhausted"
    eq_y,        \* current iterate; the returned result once terminal
    eq_iter,     \* number of applications of the map so far
    eq_resid,    \* residual of the last application (-1 before the first)
    eq_raised,   \* TRUE when the solver ended by raising an exception
    \* ---- Ecoeff (hmolcgauss_gen.py) ----
    ecoeff,      \* the current Ecoeff object's fields, NoObj before the first one
    e_memory,    \* its E-coefficient cache: key -> value
    r_memory,    \* its R-coefficient cache: key -> value
    coulomb,     \* its self.coulomb cache: None or the computed marker
    rc_last,     \* record of the last top-level get_rcoeff call, NoCall if none
    discarded,   \* the Ecoeff object the current one replaced: its molecule and
                 \* whether its r_memory held any key, NoObj if none
    \* ---- Ecoeff: packing of the Cartesian powers ----
    pk_ijks,     \* the ijks argument: the powers of two primitives
    pk_pairs2,   \* self.ijk_pairs2, <<>> before it is computed
    pk_unique,   \* self.ijk_pairs2_unique
    pk_unpacked, \* what get_coulomb unpacked from each unique flat value
    \* ---- HamiltonMoleculeCGaussGenerator (hmolcgauss_gen.py) ----
    gen,         \* the generator's fields, NoObj before and after a failed construction
    gen_built,   \* the generator as its constructor left it
    gen_result,  \* the construction: its arguments, the exception it raised
                 \* ("none" if none), whether the integrals were evaluated
    gen_calls,   \* the last two calls of get_hamiltonian / get_overlap / dm2dens
    \* ---- parameter introspection ----
    grid,        \* the BeckeMultiGrid's fields, NoObj before it is constructed
    ip_last,     \* the last introspection call, the component before it included
    \* ---- potentials (base_eks.py) ----
    eks_obj,     \* the current potential object (a tree), NoEKS before the first
    eks_last,    \* the last composition: operator, operands, exception, result
    eks_eval     \* the last evaluation: the tree, the density, the value

solverVars == <<eq_cfg, eq_state, eq_y, eq_iter, eq_resid, eq_raised>>
ecoeffVars == <<ecoeff, e_memory, r_memory, coulomb, rc_last, discarded>>
packVars == <<pk_ijks, pk_pairs2, pk_unique, pk_unpacked>>
hamVars == <<gen, gen_built, gen_result, gen_calls>>
introVars == <<grid, ip_last>>
eksVars == <<eks_obj, eks_last, eks_eval>>
vars == <<solverVars, ecoeffVars, packVars, hamVars, introVars, eksVars>>

Abs(a) == IF a < 0 THEN -a ELSE a

(***************************************************************************)
(* Equilibrium solver.  ddft/modules/equilibrium.py is not part of the     *)
(* available sources; the state machine is the one of spec section 4.7 and *)
(* design note "solve(initial, map, tol, maxIter) -> (result, state)".     *)
(***************************************************************************)
MaxVal == 4
MaxTol == 2
MaxIter == 5

Vals == (-MaxVal)..MaxVal
Maps == {"half", "const", "flip"}

\* the user-supplied update maps f(y, x) the solver is driven with:
\*   half : y -> (y + x)/2   (linear, spectral radius 1/2: contractive)
\*   const: y -> x           (contractive, factor 0)
\*   flip : y -> x - y       (spectral radius 1: not contractive)
ApplyMap(m, y, x) ==
    CASE m = "half"  -> (y + x) \div 2
      [] m = "const" -> x
      [] m = "flip"  -> x - y

\* contraction with factor 1/2, up to the rounding of the integer grid
Contractive(m) ==
    \A x \in Vals : \A a \in Vals : \A b \in Vals :
        2 * Abs(ApplyMap(m, a, x) - ApplyMap(m, b, x)) <= Abs(a - b) + 1

SolverInit ==
    /\ eq_cfg \in [map : Maps, x : Vals, y0 : Vals, tol : 1..MaxTol, maxiter : 1..MaxIter]
    /\ eq_state = "Iterating"
    /\ eq_y = eq_cfg.y0
    /\ eq_iter = 0
    /\ eq_resid = -1
    /\ eq_raised = FALSE

\* the solver is not in use
SolverIdle ==
    /\ eq_cfg = [map |-> "const", x |-> 0, y0 |-> 0, tol |-> 1, maxiter |-> 1]
    /\ eq_state = "Iterating"
    /\ eq_y = 0
    /\ eq_iter = 0
    /\ eq_resid = -1
    /\ eq_raised = FALSE

\* mutant of SolverNextState: a residual equal to the tolerance counts as
\* converged
SolverNextState_le(r, it, tol, maxiter) ==
    IF r <= tol THEN "Converged"
    ELSE IF it >= maxiter THEN "Exhausted"
    ELSE "Iterating"

\* the state the solver moves to after an application with residual r that
\* was the it-th one
SolverNextState(r, it, tol, maxiter) ==
    IF r < tol THEN "Converged"
    ELSE IF it >= maxiter THEN "Exhausted"
    ELSE "Iterating"

\* one application of the map
EqStep ==
    /\ eq_state = "Iterating"
    /\ LET ynew == ApplyMap(eq_cfg.map, eq_y, eq_cfg.x)
           r    == Abs(ynew - eq_y)
       IN /\ eq_y' = ynew
          /\ eq_resid' = r
          /\ eq_iter' = eq_iter + 1
          /\ eq_state' = SolverNextState(r, eq_iter + 1, eq_cfg.tol, eq_cfg.maxiter)
    /\ UNCHANGED <<eq_cfg, eq_raised>>

(***************************************************************************)
(* Ecoeff: src/ddft/hamiltons/hmolcgauss_gen.py, lines 183-350.            *)
(* The tensors of an Ecoeff object have one entry per (atom, row primitive,*)
(* column primitive); all arithmetic of get_rcoeff is elementwise, so the   *)
(* model follows the entry of atom 1, row primitive 1 and the last column  *)
(* primitive.  Reals are fixed-point integers; the molecules of Mols are   *)
(* chosen so that the divisions of Ecoeff.__init__ are exact.              *)
(***************************************************************************)
None == "None"
NoObj == [none |-> TRUE]
NoCall == [none |-> TRUE]

MaxR == 2       \* largest total Hermite order r + s + t of a requested R-coefficient
MaxN == 1       \* largest order n of a requested R-coefficient

max_basis == 8
max_ijkflat == 64

RECURSIVE Pow(_, _)
Pow(b, e) == IF e = 0 THEN 1 ELSE b * Pow(b, e - 1)

\* the molecules (ijks, centres, alphas, atompos) an Ecoeff is built for
Mols ==
    { [ijks    |-> << <<0, 0, 0>> >>,
       centres |-> << <<0, 0, 0>> >>,
       alphas  |-> <<1>>,
       atompos |-> << <<0, 0, 0>> >>],
      [ijks    |-> << <<0, 0, 0>>, <<1, 0, 0>> >>,
       centres |-> << <<1, 0, 0>>, <<-1, 0, 0>> >>,
       alphas  |-> <<1, 1>>,
       atompos |-> << <<1, 0, 0>>, <<-1, 0, 0>> >>],
      [ijks    |-> << <<1, 1, 0>>, <<0, 1, 1>> >>,
       centres |-> << <<2, 0, 4>>, <<-2, 0, 0>> >>,
       alphas  |-> <<1, 3>>,
       atompos |-> << <<0, 1, 0>> >>] }

\* mutant of ijk_pair: the base is the largest power, not the number of powers
ijk_pair_base7(ijks, a, b, axis) == ijks[b][axis] * (max_basis - 1) + ijks[a][axis]

\* lines 193-198: ijk_pairs[a][b] = ijk_left[0][b] * max_basis + ijk_right[a][0]
\* per axis, and the three axes combined in base max_ijkflat
ijk_pair(ijks, a, b, axis) == ijks[b][axis] * max_basis + ijks[a][axis]

ijk_pair2(ijks, a, b) ==
    ijk_pair(ijks, a, b, 1) * max_ijkflat * max_ijkflat
        + ijk_pair(ijks, a, b, 2) * max_ijkflat + ijk_pair(ijks, a, b, 3)

\* lines 320-330
unpack_ijk_flat_value(ijk_flat_value) ==
    LET ijk_pair2v == ijk_flat_value % max_ijkflat
        ijk_pair1v == (ijk_flat_value \div max_ijkflat) % max_ijkflat
        ijk_pair0v == (ijk_flat_value \div max_ijkflat) \div max_ijkflat
    IN [k |-> ijk_pair0v \div max_basis,
        l |-> ijk_pair1v \div max_basis,
        m |-> ijk_pair2v \div max_basis,
        u |-> ijk_pair0v % max_basis,
        v |-> ijk_pair1v % max_basis,
        w |-> ijk_pair2v % max_basis]

\* torch.unique: the distinct values in ascending order
RECURSIVE SortedSeq(_)
SortedSeq(S) ==
    IF S = {} THEN <<>>
    ELSE LET lo == CHOOSE x \in S : \A y \in S : x <= y
         IN <<lo>> \o SortedSeq(S \ {lo})

\* fixed-point surrogate of exp(-num/den): 1/(1 + num/den), in units of 1/1024
ExpNeg(num, den) == (1024 * den) \div (den + num)

\* lines 332-336: the Boys function F_n(T).  incgamma (ddft.utils.gamma) is
\* not available; the value is the fixed-point surrogate 1/((2n+1)(1+T)),
\* in units of 1/4096, which has F_0(0) = 1 and decreases in T
boys(n, T) == 4096 \div ((2 * n + 1) * (1 + T))

\* mutant of key_format: the order n is left out of the key
key_format_without_n(a, b, c, d) == <<a, b, c, 0>>

\* lines 231, 316, 339, 346: "{},{},{},{}".format(a, b, c, d) of four integers;
\* the decimal fields separated by commas determine the four integers
key_format(a, b, c, d) == <<a, b, c, d>>

EmptyMem == [key \in {} |-> 0]
Put(mem, key, val) == [x \in (DOMAIN mem) \cup {key} |-> IF x = key THEN val ELSE mem[x]]

\* line 296
is_negative_index(r, s, t) == r < 0 \/ s < 0 \/ t < 0

\* mutant of new_r_memory: the cache is shared between Ecoeff objects
shared_r_memory == r_memory

\* line 240: self.r_memory = {}
new_r_memory == EmptyMem

\* lines 233-237: the E cache starts with the three base entries
new_e_memory(mab) ==
    [key \in {key_format(0, 0, 0, 0), key_format(0, 0, 0, 1), key_format(0, 0, 0, 2)} |->
        mab[key[4] + 1]]

\* lines 186-245: Ecoeff.__init__
EcoeffInit(mol) ==
    LET n      == Len(mol.alphas)
        a      == 1
        b      == n
        gamma  == mol.alphas[b] + mol.alphas[a]
        qab    == [x \in 1..3 |-> mol.centres[b][x] - mol.centres[a][x]]
        ra     == [p \in 1..n |-> [x \in 1..3 |-> mol.alphas[p] * mol.centres[p][x]]]
        rc     == [x \in 1..3 |-> (ra[b][x] + ra[a][x]) \div gamma]
        rcd    == [x \in 1..3 |-> rc[x] - mol.atompos[1][x]]
        mab    == [x \in 1..3 |->
                      ExpNeg(mol.alphas[a] * mol.alphas[b] * qab[x] * qab[x], gamma)]
        pairs2 == [i \in 1..n |-> [j \in 1..n |-> ijk_pair2(mol.ijks, i, j)]]
    IN [obj |->
            [mol               |-> mol,
             ijk_pairs2        |-> pairs2,
             ijk_pairs2_unique |-> SortedSeq({pairs2[i][j] : i \in 1..n, j \in 1..n}),
             gamma             |-> gamma,
             rcd               |-> rcd,
             rcd_sq            |-> rcd[1] * rcd[1] + rcd[2] * rcd[2] + rcd[3] * rcd[3],
             mab               |-> mab],
        e_memory |-> new_e_memory(mab),
        r_memory |-> new_r_memory,
        coulomb  |-> None]

\* mutant of access_rcoeff: the lookup never finds the key
access_rcoeff_always_missing(mem, r, s, t, n) == [hit |-> FALSE]

\* lines 345-350; [hit |-> FALSE] stands for the None of a missing key
access_rcoeff(mem, r, s, t, n) ==
    LET key == key_format(r, s, t, n)
    IN IF key \in DOMAIN mem THEN [hit |-> TRUE, val |-> mem[key]] ELSE [hit |-> FALSE]

\* the result of a get_rcoeff call that changed nothing
Ret(val, mem) == [ret |-> val, mem |-> mem, calls |-> 0, writes |-> <<>>]

\* mutant of negative_index_return: the base case is memoised like the others
negative_index_saved(mem, r, s, t, n) ==
    [ret |-> 0, mem |-> Put(mem, key_format(r, s, t, n), 0),
     calls |-> 0, writes |-> <<key_format(r, s, t, n)>>]

\* line 297: return 0.0
negative_index_return(mem, r, s, t, n) == Ret(0, mem)

\* the result of a get_rcoeff call that combined the recursive calls c1 and
\* c2 (made in this order) into coeff and saved it
Saved(key, coeff, c1, c2) ==
    [ret    |-> coeff,
     mem    |-> Put(c2.mem, key, coeff),
     calls  |-> c1.calls + c2.calls + 2,
     writes |-> c1.writes \o c2.writes \o <<key>>]

\* lines 293-318: get_rcoeff(r, s, t, n) on the object obj with cache mem.
\* ret: the returned value; mem: r_memory afterwards; calls: the recursive
\* get_rcoeff calls made; writes: the keys saved, in order
RECURSIVE get_rcoeff(_, _, _, _, _, _)
get_rcoeff(obj, mem, r, s, t, n) ==
    IF is_negative_index(r, s, t) THEN negative_index_return(mem, r, s, t, n)
    ELSE IF access_rcoeff(mem, r, s, t, n).hit
    THEN Ret(access_rcoeff(mem, r, s, t, n).val, mem)
    ELSE LET key == key_format(r, s, t, n)
         IN IF r = 0 /\ s = 0 /\ t = 0
            THEN LET coeff == Pow(-2 * obj.gamma, n) * boys(n, obj.gamma * obj.rcd_sq)
                 IN [ret |-> coeff, mem |-> Put(mem, key, coeff),
                     calls |-> 0, writes |-> <<key>>]
            ELSE IF r > 0
            THEN LET c1 == get_rcoeff(obj, mem, r - 2, s, t, n + 1)
                     c2 == get_rcoeff(obj, c1.mem, r - 1, s, t, n + 1)
                 IN Saved(key, (r - 1) * c1.ret + obj.rcd[1] * c2.ret, c1, c2)
            ELSE IF s > 0
            THEN LET c1 == get_rcoeff(obj, mem, r, s - 2, t, n + 1)
                     c2 == get_rcoeff(obj, c1.mem, r, s - 1, t, n + 1)
                 IN Saved(key, (s - 1) * c1.ret + obj.rcd[2] * c2.ret, c1, c2)
            ELSE IF t > 0
            THEN LET c1 == get_rcoeff(obj, mem, r, s, t - 2, n + 1)
                     c2 == get_rcoeff(obj, c1.mem, r, s, t - 1, n + 1)
                 IN Saved(key, (t - 1) * c1.ret + obj.rcd[3] * c2.ret, c1, c2)
            ELSE \* no branch taken: coeff is still the None of the failed lookup
                 [ret |-> None, mem |-> Put(mem, key, None), calls |-> 0, writes |-> <<key>>]

\* lines 277-284: the get_rcoeff(r, s, t, 0) calls of get_coulomb for one flat
\* value, r in range(k+u+1), s in range(l+v+1), t in range(m+w+1), in loop
\* order; idx counts the calls already made
RECURSIVE coulomb_loops(_, _, _, _)
coulomb_loops(obj, mem, p, idx) ==
    LET nr == p.k + p.u + 1
        ns == p.l + p.v + 1
        nt == p.m + p.w + 1
    IN IF idx = nr * ns * nt THEN mem
       ELSE LET r == idx \div (ns * nt)
                s == (idx \div nt) % ns
                t == idx % nt
                Rrst == get_rcoeff(obj, mem, r, s, t, 0)
            IN \* Rrst is evaluated before the next iteration starts
               IF Rrst.calls >= 0 THEN coulomb_loops(obj, Rrst.mem, p, idx + 1) ELSE mem

\* lines 268-286: get_coulomb, as far as r_memory goes: the loop over the
\* unique flat values, from the i-th one on
RECURSIVE coulomb_memory(_, _, _)
coulomb_memory(obj, mem, i) ==
    IF i > Len(obj.ijk_pairs2_unique) THEN mem
    ELSE coulomb_memory(obj,
             coulomb_loops(obj, mem,
                 unpack_ijk_flat_value(obj.ijk_pairs2_unique[i]), 0),
             i + 1)

\* lines 80-83 of HamiltonMoleculeCGaussGenerator.__init__: a fresh Ecoeff
\* whose overlap, kinetics and Coulomb integrals are evaluated once
IntegralAssembly(mol) ==
    LET e == EcoeffInit(mol)
    IN [e EXCEPT !.r_memory = coulomb_memory(e.obj, e.r_memory, 1),
                 !.coulomb = "computed"]

EcoeffIdle ==
    /\ ecoeff = NoObj
    /\ e_memory = EmptyMem
    /\ r_memory = EmptyMem
    /\ coulomb = None
    /\ rc_last = NoCall
    /\ discarded = NoObj

\* ecoeff_obj = Ecoeff(ijks, centres, alphas, atompos)
NewEcoeff(mol) ==
    LET e == EcoeffInit(mol)
    IN /\ ecoeff' = e.obj
       /\ e_memory' = e.e_memory
       /\ r_memory' = e.r_memory
       /\ coulomb' = e.coulomb
       /\ rc_last' = NoCall
       /\ discarded' = IF ecoeff = NoObj THEN NoObj
                       ELSE [mol |-> ecoeff.mol, cached |-> DOMAIN r_memory # {}]

\* ecoeff_obj.get_coulomb()
GetCoulomb ==
    /\ ecoeff # NoObj
    /\ IF coulomb = None
       THEN /\ r_memory' = coulomb_memory(ecoeff, r_memory, 1)
            /\ coulomb' = "computed"
       ELSE UNCHANGED <<r_memory, coulomb>>
    /\ UNCHANGED <<ecoeff, e_memory, rc_last, discarded>>

\* ecoeff_obj.get_rcoeff(r, s, t, n): the request that follows the object's
\* construction (and its get_coulomb, when that was called); rc_last keeps
\* what the call did
GetRcoeff(r, s, t, n) ==
    /\ ecoeff # NoObj
    /\ rc_last = NoCall
    /\ LET c == get_rcoeff(ecoeff, r_memory, r, s, t, n)
       IN /\ r_memory' = c.mem
          /\ rc_last' = [args |-> <<r, s, t, n>>, ret |-> c.ret, calls |-> c.calls,
                         writes |-> c.writes, before |-> r_memory, after |-> c.mem]
    /\ UNCHANGED <<ecoeff, e_memory, coulomb, discarded>>

\* the (r, s, t) of a request: each index may be negative
RArgs == {rst \in ((-1)..MaxR) \X ((-1)..MaxR) \X ((-1)..MaxR) :
             rst[1] + rst[2] + rst[3] <= MaxR}
NArgs == 0..MaxN

(***************************************************************************)
(* The packing of the powers of every primitive pair into one integer      *)
(* (Ecoeff.__init__, lines 193-198 and 227) and its unpacking in           *)
(* get_coulomb (lines 273-275, 320-330), for two primitives with any       *)
(* powers in 0..max_basis-1.                                               *)
(***************************************************************************)
Powers == 0..(max_basis - 1)

PackIdle ==
    /\ pk_ijks = <<>>
    /\ pk_pairs2 = <<>>
    /\ pk_unique = <<>>
    /\ pk_unpacked = <<>>

\* lines 193-198, 227: ijk_pairs2 and its unique values
PackPairs(ijks) ==
    /\ pk_pairs2 = <<>>
    /\ pk_ijks' = ijks
    /\ pk_pairs2' = [a \in 1..2 |-> [b \in 1..2 |-> ijk_pair2(ijks, a, b)]]
    /\ pk_unique' = SortedSeq({ijk_pair2(ijks, a, b) : a \in 1..2, b \in 1..2})
    /\ UNCHANGED pk_unpacked

\* lines 273-275: k, l, m, u, v, w of every unique flat value
UnpackAll ==
    /\ pk_pairs2 # <<>>
    /\ pk_unpacked = <<>>
    /\ pk_unpacked' = [i \in 1..Len(pk_unique) |-> unpack_ijk_flat_value(pk_unique[i])]
    /\ UNCHANGED <<pk_ijks, pk_pairs2, pk_unique>>

(***************************************************************************)
(* HamiltonMoleculeCGaussGenerator (hmolcgauss_gen.py, lines 58-181).      *)
(* Tensors are sequences (vectors) and sequences of sequences (matrices)   *)
(* of integers.  The primitive integrals come from ddft.csrc, which is a   *)
(* compiled extension: they are inputs here, multiples of 4 so that the    *)
(* halving of the symmetrization is exact, and they may be asymmetric.     *)
(***************************************************************************)
MaxElmts == 3   \* largest number of primitives (nelmtstot)
MaxAtoms == 2   \* largest number of atom positions (natoms)

RECURSIVE SeqSum(_)
SeqSum(s) == IF Len(s) = 0 THEN 0 ELSE s[Len(s)] + SeqSum(SubSeq(s, 1, Len(s) - 1))

\* torch.cumsum of a vector
cumsum(s) == [i \in 1..Len(s) |-> SeqSum(SubSeq(s, 1, i))]

Max2(a, b) == IF a > b THEN a ELSE b

\* M.transpose(-2,-1) of a square matrix
transpose(M) == [a \in 1..Len(M) |-> [b \in 1..Len(M) |-> M[b][a]]]

\* mutant of symmetrize: the matrix is assumed symmetric and kept as it is
symmetrize_assumed(M) == M

\* lines 111, 112, 136: (M + M.transpose(-2,-1)) * 0.5
symmetrize(M) == [a \in 1..Len(M) |-> [b \in 1..Len(M) |-> (M[a][b] + transpose(M)[a][b]) \div 2]]

RECURSIVE ISqrtFrom(_, _)
ISqrtFrom(d, k) == IF (k + 1) * (k + 1) > d THEN k ELSE ISqrtFrom(d, k + 1)

\* lines 87, 103: 1./torch.sqrt(d) for d > 0, a positive decreasing integer
\* stand-in that never rounds to zero
InvSqrt(d) == 1 + (4 \div ISqrtFrom(d, 0))

\* line 118: torch.exp(-z) for z >= 0 in fixed point
GridExp(z) == 8 \div (1 + z)

\* the grid: self._grid.rgrid_in_xyz (nr, 3) and self._grid.get_dvolume() (nr,)
GridPoints == << <<0, 0, 0>>, <<1, 0, 1>> >>
GridDvolume == <<1, 2>>

\* the primitives: centres, ijks, alphas, coeffs of nelmtstot primitives
Centres(N) == [p \in 1..N |-> <<p - 2, 0, 0>>]
Ijks(N) == [p \in 1..N |-> <<p % 2, 0, 0>>]
Alphas(N) == [p \in 1..N |-> p]
Coeffs(N) == [p \in 1..N |-> 1 + (p % 2)]

\* ecoeff_obj.get_overlap(), get_kinetics(), get_coulomb(): the primitive
\* matrices, exactly symmetric when asym = 0 and asymmetric when asym = 1
OlpElmts(N, asym) ==
    [p \in 1..N |-> [q \in 1..N |->
        IF p = q THEN 4 + 12 * (p % 2) ELSE 4 + (IF p < q THEN 4 * asym ELSE 0)]]

KinElmts(N, asym) ==
    [p \in 1..N |-> [q \in 1..N |->
        4 * (2 * (p + q) + p * q) + (IF p > q THEN 4 * asym ELSE 0)]]

CoulombElmts(natoms, N, asym) ==
    [i \in 1..natoms |-> [p \in 1..N |-> [q \in 1..N |->
        0 - 4 * (i + p * q) - (IF p < q THEN 4 * asym ELSE 0)]]]

\* the nelmts argument: an int (tensor = FALSE, v = <<n>>) or a 1-D tensor of
\* the number of primitives of every basis (tensor = TRUE, v = the sizes)
NelmtsInts == {[tensor |-> FALSE, v |-> <<n>>] : n \in 1..(MaxElmts + 1)}

NelmtsTensors ==
    {[tensor |-> TRUE, v |-> s] :
        s \in {t \in UNION {[1..n -> 1..(MaxElmts + 1)] : n \in 1..(MaxElmts + 1)} :
                  SeqSum(t) <= MaxElmts + 1}}

\* the arguments of the constructor
HamArgs ==
    [nelmtstot : 1..MaxElmts,
     nelmts : NelmtsInts \cup NelmtsTensors,
     natoms : 1..MaxAtoms,
     atomzs : {[i \in 1..nz |-> i] : nz \in 1..(MaxAtoms + 1)},
     normalize_elmts : BOOLEAN,
     asym : {0, 1}]

\* indexing a dimension of size N with the 0-based index i0: negative indices
\* count from the end, anything outside -N..N-1 raises IndexError
index_in_range(i0, N) == (0 - N) <= i0 /\ i0 < N
torch_index(i0, N) == IF i0 >= 0 THEN i0 + 1 ELSE N + i0 + 1

\* broadcasting two sizes of one dimension (line 83)
broadcastable(n1, n2) == n1 = n2 \/ n1 = 1 \/ n2 = 1

\* mutant of contract: the column prefix sums are not differenced
contract_columns_not_differenced(g, mat) ==
    LET N == g.nelmtstot
        nb == g.nbasis
        m == [p \in 1..N |-> [q \in 1..N |-> mat[p][q] * g.coeffs2[p][q]]]
    IN IF g.nelmts.tensor
       THEN LET cs1 == [i \in 1..N |-> [q \in 1..N |-> SeqSum([p \in 1..i |-> m[p][q]])]]
                csmat1 == [a \in 1..nb |-> cs1[torch_index(g.csnelmts[a], N)]]
                mat1 == [a \in 1..nb |-> [q \in 1..N |->
                            IF a = 1 THEN csmat1[1][q] ELSE csmat1[a][q] - csmat1[a - 1][q]]]
                cs2 == [a \in 1..nb |-> [j \in 1..N |-> SeqSum([q \in 1..j |-> mat1[a][q]])]]
            IN [a \in 1..nb |-> [b \in 1..nb |-> cs2[a][torch_index(g.csnelmts[b], N)]]]
       ELSE LET k == g.nelmts.v[1]
            IN [a \in 1..nb |-> [b \in 1..nb |->
                   SeqSum([i \in 1..k |->
                       SeqSum([j \in 1..k |-> m[(a - 1) * k + i][(b - 1) * k + j]])])]]

\* lines 162-181: _contract, on an object g with coeffs2, nelmts, csnelmts, nbasis
contract(g, mat) ==
    LET N == g.nelmtstot
        nb == g.nbasis
        m == [p \in 1..N |-> [q \in 1..N |-> mat[p][q] * g.coeffs2[p][q]]]
    IN IF g.nelmts.tensor
       THEN LET cs1 == [i \in 1..N |-> [q \in 1..N |-> SeqSum([p \in 1..i |-> m[p][q]])]]
                csmat1 == [a \in 1..nb |-> cs1[torch_index(g.csnelmts[a], N)]]
                mat1 == [a \in 1..nb |-> [q \in 1..N |->
                            IF a = 1 THEN csmat1[1][q] ELSE csmat1[a][q] - csmat1[a - 1][q]]]
                cs2 == [a \in 1..nb |-> [j \in 1..N |-> SeqSum([q \in 1..j |-> mat1[a][q]])]]
                csmat2 == [a \in 1..nb |-> [b \in 1..nb |-> cs2[a][torch_index(g.csnelmts[b], N)]]]
            IN [a \in 1..nb |-> [b \in 1..nb |->
                   IF b = 1 THEN csmat2[a][1] ELSE csmat2[a][b] - csmat2[a][b - 1]]]
       ELSE LET k == g.nelmts.v[1]
            IN [a \in 1..nb |-> [b \in 1..nb |->
                   SeqSum([i \in 1..k |->
                       SeqSum([j \in 1..k |-> m[(a - 1) * k + i][(b - 1) * k + j]])])]]

\* the outcome of a construction that raised: the exception and whether
\* lines 80-83 (the primitive integrals) had been executed before it
Raised(kind, integrals) == [err |-> kind, integrals |-> integrals, obj |-> NoObj]

\* lines 115-129: the contracted, normalized basis on the grid
basis_on_grid(N, nelmts, nbasis, csnelmts, coeffs, norm) ==
    LET nr == Len(GridPoints)
        rab(p, r, x) == GridPoints[r][x] - Centres(N)[p][x]
        dist_sq(p, r) == SeqSum([x \in 1..3 |-> rab(p, r, x) * rab(p, r, x)])
        rab_power(p, r) ==
            Pow(rab(p, r, 1), Ijks(N)[p][1]) * Pow(rab(p, r, 2), Ijks(N)[p][2])
                * Pow(rab(p, r, 3), Ijks(N)[p][3])
        basis_all_coeff == [p \in 1..N |-> [r \in 1..nr |->
            rab_power(p, r) * GridExp(Alphas(N)[p] * dist_sq(p, r)) * coeffs[p]]]
        basis ==
            IF nelmts.tensor
            THEN LET cs == [i \in 1..N |-> [r \in 1..nr |->
                               SeqSum([p \in 1..i |-> basis_all_coeff[p][r]])]]
                     sel == [a \in 1..nbasis |-> cs[torch_index(csnelmts[a], N)]]
                 IN [a \in 1..nbasis |-> [r \in 1..nr |->
                        IF a = 1 THEN sel[1][r] ELSE sel[a][r] - sel[a - 1][r]]]
            ELSE LET k == nelmts.v[1]
                 IN [a \in 1..nbasis |-> [r \in 1..nr |->
                        SeqSum([i \in 1..k |-> basis_all_coeff[(a - 1) * k + i][r]])]]
    IN [a \in 1..nbasis |-> [r \in 1..nr |-> basis[a][r] * norm[a]]]

\* lines 85-129, once the primitive matrices are there
HamFinish(a, nbasis, olp_elmts, kin_elmts, coul_elmts) ==
    LET N == a.nelmtstot
        norm_elmt == [p \in 1..N |-> InvSqrt(olp_elmts[p][p])]
        coeffs == IF a.normalize_elmts THEN [p \in 1..N |-> Coeffs(N)[p] * norm_elmt[p]]
                  ELSE Coeffs(N)
        kin_coul_elmts == [p \in 1..N |-> [q \in 1..N |->
            kin_elmts[p][q] + SeqSum([i \in 1..Len(coul_elmts) |-> coul_elmts[i][p][q]])]]
        coeffs2 == [p \in 1..N |-> [q \in 1..N |-> coeffs[q] * coeffs[p]]]
        csnelmts == IF a.nelmts.tensor
                    THEN [i \in 1..nbasis |-> cumsum(a.nelmts.v)[i] - 1]
                    ELSE <<>>
        g0 == [nelmtstot |-> N, nelmts |-> a.nelmts, nbasis |-> nbasis,
               natoms |-> a.natoms, coeffs2 |-> coeffs2, csnelmts |-> csnelmts]
    IN IF a.nelmts.tensor /\ \E i \in 1..nbasis : ~index_in_range(csnelmts[i], N)
       THEN Raised("IndexError", TRUE)
       ELSE LET kin_coul_mat0 == contract(g0, kin_coul_elmts)
                olp_mat0 == contract(g0, olp_elmts)
                norm == [b \in 1..nbasis |-> InvSqrt(olp_mat0[b][b])]
                norm_mat == [b \in 1..nbasis |-> [c \in 1..nbasis |-> norm[b] * norm[c]]]
                kin_coul_mat1 == [b \in 1..nbasis |-> [c \in 1..nbasis |->
                                     kin_coul_mat0[b][c] * norm_mat[b][c]]]
                olp_mat1 == [b \in 1..nbasis |-> [c \in 1..nbasis |->
                                olp_mat0[b][c] * norm_mat[b][c]]]
                basis == basis_on_grid(N, a.nelmts, nbasis, csnelmts, coeffs, norm)
            IN [err |-> "none", integrals |-> TRUE,
                obj |-> [nelmtstot |-> N, nelmts |-> a.nelmts, nbasis |-> nbasis,
                         natoms |-> a.natoms, olp_elmts |-> olp_elmts,
                         kin_coul_elmts |-> kin_coul_elmts,
                         coeffs2 |-> coeffs2, csnelmts |-> csnelmts,
                         kin_coul_mat |-> symmetrize(kin_coul_mat1),
                         olp_mat |-> symmetrize(olp_mat1),
                         basis |-> basis,
                         basis_dvolume |-> [b \in 1..nbasis |-> [r \in 1..Len(GridPoints) |->
                                               basis[b][r] * GridDvolume[r]]]]]

\* lines 58-129: HamiltonMoleculeCGaussGenerator.__init__
HamInit(a) ==
    LET N == a.nelmtstot
        nz == Len(a.atomzs)
    IN IF ~a.nelmts.tensor /\ N % a.nelmts.v[1] # 0
       THEN Raised("AssertionError", FALSE)
       ELSE LET nbasis == IF a.nelmts.tensor THEN Len(a.nelmts.v) ELSE N \div a.nelmts.v[1]
                olp_elmts == OlpElmts(N, a.asym)
                kin_elmts == KinElmts(N, a.asym)
                coulomb_elmts == CoulombElmts(a.natoms, N, a.asym)
            IN IF ~broadcastable(a.natoms, nz)
               THEN Raised("RuntimeError", TRUE)
               ELSE HamFinish(a, nbasis, olp_elmts, kin_elmts,
                        [i \in 1..Max2(a.natoms, nz) |-> [p \in 1..N |-> [q \in 1..N |->
                            coulomb_elmts[IF a.natoms = 1 THEN 1 ELSE i][p][q]
                                * a.atomzs[IF nz = 1 THEN 1 ELSE i]]]])

\* line 134: the einsum sums the products in an order that depends on (b, c),
\* so its floating-point result need not be symmetric: a fixed asymmetric
\* perturbation stands for the round-off
einsum_roundoff(b, c) == IF b < c THEN 2 ELSE 0

\* mutant of get_hamiltonian: the sum is accumulated into the stored matrix
get_hamiltonian_inplace(g, vext) ==
    LET nb == g.nbasis
        mat == [b \in 1..nb |-> [c \in 1..nb |->
                   SeqSum([r \in 1..Len(vext) |-> vext[r] * g.basis_dvolume[b][r] * g.basis[c][r]])
                       + g.kin_coul_mat[b][c]]]
    IN [ret |-> symmetrize(mat), storage |-> "kin_coul_mat",
        obj |-> [g EXCEPT !.kin_coul_mat = symmetrize(mat)]]

\* lines 131-137: get_hamiltonian; ret is the matrix of the returned
\* LinearOperator, storage the stored tensor whose memory it shares ("new"
\* for a tensor built by the call), obj the generator after the call
get_hamiltonian(g, vext) ==
    LET nb == g.nbasis
        extpot_mat == [b \in 1..nb |-> [c \in 1..nb |->
            SeqSum([r \in 1..Len(vext) |-> vext[r] * g.basis_dvolume[b][r] * g.basis[c][r]])
                + einsum_roundoff(b, c)]]
        mat == [b \in 1..nb |-> [c \in 1..nb |-> extpot_mat[b][c] + g.kin_coul_mat[b][c]]]
    IN [ret |-> symmetrize(mat), storage |-> "new", obj |-> g]

\* lines 139-140: get_overlap wraps the stored olp_mat
get_overlap(g) == [ret |-> g.olp_mat, storage |-> "olp_mat", obj |-> g]

\* lines 142-149: dm2dens
dm2dens(g, dm) ==
    LET nb == g.nbasis
    IN [ret |-> [r \in 1..Len(GridPoints) |->
                    SeqSum([j \in 1..nb |-> SeqSum([k \in 1..nb |->
                        dm[j][k] * g.basis[j][r] * g.basis[k][r]])])],
        storage |-> "new", obj |-> g]

\* the arguments of the calls: potentials on the grid (even, so that the
\* halving stays exact) and density matrices
VextArgs == {<<0, 0>>, <<2, 4>>}
DmArgs(nb) == {[j \in 1..nb |-> [k \in 1..nb |-> IF j = k THEN 1 ELSE 0]],
               [j \in 1..nb |-> [k \in 1..nb |-> j + 2 * k]]}

HamIdle ==
    /\ gen = NoObj
    /\ gen_built = NoObj
    /\ gen_result = NoCall
    /\ gen_calls = <<>>

\* HamiltonMoleculeCGaussGenerator(grid, ijks, alphas, centres, coeffs, nelmts,
\* atompos, atomzs, normalize_elmts): one construction per behaviour
NewHamiltonGenerator(a) ==
    /\ gen_result = NoCall
    /\ LET c == HamInit(a)
       IN /\ gen' = c.obj
          /\ gen_built' = c.obj
          /\ gen_result' = [args |-> a, err |-> c.err, integrals |-> c.integrals]
    /\ gen_calls' = <<>>

\* the record of the calls keeps the last two of them
Logged(call) == IF Len(gen_calls) < 2 THEN Append(gen_calls, call) ELSE <<gen_calls[2], call>>

GetHamiltonian(vext) ==
    /\ gen # NoObj
    /\ LET c == get_hamiltonian(gen, vext)
       IN /\ gen' = c.obj
          /\ gen_calls' = Logged([method |-> "get_hamiltonian", arg |-> vext,
                                  ret |-> c.ret, storage |-> c.storage])
    /\ UNCHANGED <<gen_built, gen_result>>

GetOverlap ==
    /\ gen # NoObj
    /\ LET c == get_overlap(gen)
       IN /\ gen' = c.obj
          /\ gen_calls' = Logged([method |-> "get_overlap", arg |-> <<>>,
                                  ret |-> c.ret, storage |-> c.storage])
    /\ UNCHANGED <<gen_built, gen_result>>

Dm2Dens(dm) ==
    /\ gen # NoObj
    /\ LET c == dm2dens(gen, dm)
       IN /\ gen' = c.obj
          /\ gen_calls' = Logged([method |-> "dm2dens", arg |-> dm,
                                  ret |-> c.ret, storage |-> c.storage])
    /\ UNCHANGED <<gen_built, gen_result>>

(***************************************************************************)
(* Parameter introspection: HamiltonMoleculeCGaussGenerator.getparamnames  *)
(* (lines 151-159) and BeckeMultiGrid.getparams / setparams                *)
(* (multiatomsgrid.py, lines 138-169).  A tensor is a record of its name   *)
(* and its flattened values.                                               *)
(***************************************************************************)
MethodNames ==
    {"get_hamiltonian", "get_overlap", "dm2dens", "solve_poisson", "get_dvolume",
     "interpolate", "getparamnames"}

Prefixes == {"", "hamilton."}

\* mutant of getparamnames: an unknown method has no parameters
getparamnames_lenient(methodname, prefix) ==
    IF methodname = "get_hamiltonian"
    THEN [err |-> "none",
          ret |-> <<<<prefix, "basis_dvolume">>, <<prefix, "basis">>, <<prefix, "kin_coul_mat">>>>]
    ELSE IF methodname = "get_overlap" THEN [err |-> "none", ret |-> <<<<prefix, "olp_mat">>>>]
    ELSE IF methodname = "dm2dens" THEN [err |-> "none", ret |-> <<<<prefix, "basis">>>>]
    ELSE [err |-> "none", ret |-> <<>>]

\* lines 151-159; a name prefix+"x" is the pair <<prefix, "x">>
getparamnames(methodname, prefix) ==
    IF methodname = "get_hamiltonian"
    THEN [err |-> "none",
          ret |-> <<<<prefix, "basis_dvolume">>, <<prefix, "basis">>, <<prefix, "kin_coul_mat">>>>]
    ELSE IF methodname = "get_overlap" THEN [err |-> "none", ret |-> <<<<prefix, "olp_mat">>>>]
    ELSE IF methodname = "dm2dens" THEN [err |-> "none", ret |-> <<<<prefix, "basis">>>>]
    ELSE [err |-> "KeyError", ret |-> <<>>]

Tensor(name, values) == [name |-> name, val |-> values]

\* the atom grid handed to BeckeMultiGrid: a Base3DGrid with its points, its
\* dvolume and the parameter lists of its own getparams, or not a grid
AtomGrids ==
    { [is3d |-> TRUE, rgrid_in_xyz |-> GridPoints, dvolume |-> GridDvolume,
       params |-> [get_dvolume |-> <<Tensor("radgrid_dvolume", <<1, 2>>)>>,
                   solve_poisson |-> <<Tensor("phithetargrid", <<0, 1>>),
                                       Tensor("wphitheta", <<3>>)>>,
                   interpolate |-> <<Tensor("radrgrid", <<0, 1>>)>>]],
      [is3d |-> FALSE, rgrid_in_xyz |-> <<>>, dvolume |-> <<>>,
       params |-> [get_dvolume |-> <<>>, solve_poisson |-> <<>>, interpolate |-> <<>>]] }

Unset == [set |-> FALSE, v |-> <<>>]
Attr(list) == [set |-> TRUE, v |-> list]

\* lines 52-81: the Becke weight of an atom's own grid points, in sixths: 1.0
\* for a single atom, a share of it otherwise
atom_weight(natoms) == 6 \div natoms

\* lines 25-46: BeckeMultiGrid.__init__ with natoms atoms at (i, 0, 0)
BeckeMultiGridInit(atomgrid, natoms) ==
    IF ~atomgrid.is3d THEN [err |-> "TypeError", obj |-> NoObj]
    ELSE LET ngrid == Len(atomgrid.rgrid_in_xyz)
             atompos == [i \in 1..natoms |-> <<i, 0, 0>>]
         IN [err |-> "none",
             obj |-> [natoms |-> natoms,
                      atompos |-> Tensor("atompos", [n \in 1..(natoms * 3) |->
                          atompos[((n - 1) \div 3) + 1][((n - 1) % 3) + 1]]),
                      atomgrid |-> atomgrid,
                      rgrid |-> Tensor("rgrid", [n \in 1..(natoms * ngrid * 3) |->
                          atomgrid.rgrid_in_xyz[(((n - 1) \div 3) % ngrid) + 1][((n - 1) % 3) + 1]
                              + atompos[((n - 1) \div (3 * ngrid)) + 1][((n - 1) % 3) + 1]]),
                      dvolume |-> Tensor("dvolume", [n \in 1..(natoms * ngrid) |->
                          atomgrid.dvolume[((n - 1) % ngrid) + 1] * atom_weight(natoms)]),
                      natomgrid_get_dvolume |-> Unset,
                      natomgrid_solve_poisson |-> Unset,
                      natomgrid_interpolate |-> Unset]]

\* lines 138-154: getparams
grid_getparams(g, methodname) ==
    IF methodname = "solve_poisson"
    THEN [err |-> "none",
          ret |-> <<g.atompos, g.rgrid>> \o g.atomgrid.params.get_dvolume
                      \o g.atomgrid.params.solve_poisson \o g.atomgrid.params.interpolate,
          obj |-> [g EXCEPT !.natomgrid_get_dvolume = Attr(g.atomgrid.params.get_dvolume),
                            !.natomgrid_solve_poisson = Attr(g.atomgrid.params.solve_poisson),
                            !.natomgrid_interpolate = Attr(g.atomgrid.params.interpolate)]]
    ELSE IF methodname = "get_dvolume"
    THEN [err |-> "none", ret |-> <<g.dvolume>>, obj |-> g]
    ELSE [err |-> "RuntimeError", ret |-> <<>>, obj |-> g]

\* lines 156-169: setparams.  Line 159 adds the int idx0 to the attribute
\* natomgrid_get_dvolume: AttributeError while getparams("solve_poisson") has
\* not set it, TypeError once it holds the list getparams stored in it
grid_setparams(g, methodname, params) ==
    IF methodname = "solve_poisson"
    THEN IF ~g.natomgrid_get_dvolume.set THEN [err |-> "AttributeError", obj |-> g]
         ELSE [err |-> "TypeError", obj |-> g]
    ELSE IF methodname = "get_dvolume"
    THEN IF Len(params) # 1 THEN [err |-> "ValueError", obj |-> g]
         ELSE [err |-> "none", obj |-> [g EXCEPT !.dvolume = params[1]]]
    ELSE [err |-> "RuntimeError", obj |-> g]

\* the parameter lists handed to setparams: what getparams returns for the
\* name, a new dvolume, or nothing
SetParamsArgs(g, methodname) ==
    {grid_getparams(g, methodname).ret, <<>>,
     <<Tensor("dvolume", [n \in 1..Len(g.dvolume.val) |-> 4])>>}

IntrospectIdle ==
    /\ grid = NoObj
    /\ ip_last = NoCall

\* grid = BeckeMultiGrid(atomgrid, atompos)
NewGrid(atomgrid, natoms) ==
    /\ grid = NoObj
    /\ LET c == BeckeMultiGridInit(atomgrid, natoms)
       IN /\ grid' = c.obj
          /\ ip_last' = [target |-> "grid", method |-> "__init__", name |-> "",
                         err |-> c.err, ret |-> <<>>, before |-> NoObj]

GetParamNames(methodname, prefix) ==
    /\ gen # NoObj
    /\ LET c == getparamnames(methodname, prefix)
       IN ip_last' = [target |-> "gen", method |-> "getparamnames", name |-> methodname,
                      err |-> c.err, ret |-> c.ret, before |-> gen]
    /\ UNCHANGED grid

GridGetParams(methodname) ==
    /\ grid # NoObj
    /\ LET c == grid_getparams(grid, methodname)
       IN /\ grid' = c.obj
          /\ ip_last' = [target |-> "grid", method |-> "getparams", name |-> methodname,
                         err |-> c.err, ret |-> c.ret, before |-> grid]

GridSetParams(methodname) ==
    /\ grid # NoObj
    /\ \E params \in SetParamsArgs(grid, methodname) :
          LET c == grid_setparams(grid, methodname, params)
          IN /\ grid' = c.obj
             /\ ip_last' = [target |-> "grid", method |-> "setparams", name |-> methodname,
                            err |-> c.err, ret |-> params, before |-> grid]

(***************************************************************************)
(* Composition of potential objects (src/ddft/eks/base_eks.py).  A         *)
(* potential is a tree: a node is a record of its class (kind), its stored *)
(* value (val) and its children (a, b: sequences of no or one tree).  A    *)
(* tensor or a density is followed at one cell; a value is a fraction      *)
(* n/d with d >= 0, where 1/0 is +inf, -1/0 is -inf and 0/0 is nan (the    *)
(* sign of a zero is not kept).                                            *)
(***************************************************************************)
MaxDepth == 1   \* largest depth of a potential that is composed further

RECURSIVE Gcd(_, _)
Gcd(x, y) == IF y = 0 THEN x ELSE Gcd(y, x % y)

Sign(x) == IF x > 0 THEN 1 ELSE IF x < 0 THEN 0 - 1 ELSE 0

\* the fraction n/d (d >= 0) in lowest terms
Frac(n, d) ==
    IF d = 0 THEN [n |-> Sign(n), d |-> 0]
    ELSE LET g == Gcd(Abs(n), d) IN [n |-> n \div g, d |-> d \div g]

Num(x) == Frac(x, 1)
Nan == Frac(0, 0)

\* float arithmetic: -x, x + y, x - y, x * y, x / y
FNeg(x) == [n |-> 0 - x.n, d |-> x.d]

FAdd(x, y) ==
    IF x = Nan \/ y = Nan THEN Nan
    ELSE IF x.d = 0 /\ y.d = 0 THEN (IF x.n = y.n THEN x ELSE Nan)
    ELSE IF x.d = 0 THEN x
    ELSE IF y.d = 0 THEN y
    ELSE Frac(x.n * y.d + y.n * x.d, x.d * y.d)

FSub(x, y) == FAdd(x, FNeg(y))

FMul(x, y) == Frac(x.n * y.n, x.d * y.d)

FDiv(x, y) ==
    LET inv == IF y.n < 0 THEN [n |-> 0 - y.d, d |-> 0 - y.n] ELSE [n |-> y.d, d |-> y.n]
    IN FMul(x, Frac(inv.n, inv.d))

\* the classes of base_eks.py; RhoEKS is a subclass of BaseEKS defined by the
\* caller whose forward returns the density itself
TensorEKS(tensor) == [kind |-> "TensorEKS", val |-> tensor, a |-> <<>>, b |-> <<>>]
ConstEKS(c) == [kind |-> "ConstEKS", val |-> c, a |-> <<>>, b |-> <<>>]
RhoEKS == [kind |-> "RhoEKS", val |-> Num(0), a |-> <<>>, b |-> <<>>]
NegEKS(eks) == [kind |-> "NegEKS", val |-> Num(0), a |-> <<eks>>, b |-> <<>>]
AddEKS(a, b) == [kind |-> "AddEKS", val |-> Num(0), a |-> <<a>>, b |-> <<b>>]
MultEKS(a, b) == [kind |-> "MultEKS", val |-> Num(0), a |-> <<a>>, b |-> <<b>>]
DivEKS(a, b) == [kind |-> "DivEKS", val |-> Num(0), a |-> <<a>>, b |-> <<b>>]

\* an object that is no potential: what stands in the obj field of a raw operand
NoEKS == [kind |-> "none", val |-> Num(0), a |-> <<>>, b |-> <<>>]

RECURSIVE Depth(_)
Depth(e) ==
    IF e.a = <<>> THEN 0
    ELSE IF e.b = <<>> THEN 1 + Depth(e.a[1])
    ELSE 1 + (IF Depth(e.a[1]) > Depth(e.b[1]) THEN Depth(e.a[1]) ELSE Depth(e.b[1]))

\* lines 44, 52, 61, 70, 79, 88: forward of every class on the density
RECURSIVE forward(_, _)
forward(e, density) ==
    IF e.kind = "TensorEKS" THEN FAdd(FMul(density, Num(0)), e.val)
    ELSE IF e.kind = "ConstEKS" THEN FAdd(FMul(density, Num(0)), e.val)
    ELSE IF e.kind = "RhoEKS" THEN density
    ELSE IF e.kind = "NegEKS" THEN FNeg(forward(e.a[1], density))
    ELSE IF e.kind = "AddEKS" THEN FAdd(forward(e.a[1], density), forward(e.b[1], density))
    ELSE IF e.kind = "MultEKS" THEN FMul(forward(e.a[1], density), forward(e.b[1], density))
    ELSE FDiv(forward(e.a[1], density), forward(e.b[1], density))

\* an operand: a potential (obj), or a raw value of a Python type (val)
Operand(type, val, obj) == [type |-> type, val |-> val, obj |-> obj]

Operands ==
    {Operand("BaseEKS", Num(0), o) : o \in {RhoEKS, ConstEKS(Num(2))}}
        \cup {Operand(t, Num(v), NoEKS) : t \in {"int", "float", "Tensor"}, v \in {0, 3}}
        \cup {Operand("str", Num(0), NoEKS)}

Built(obj) == [err |-> "none", obj |-> obj]
TypeError == [err |-> "TypeError", obj |-> NoEKS]

\* lines 92-100: _normalize.  Line 96 calls TensorEKS() without the tensor,
\* which raises TypeError (a missing positional argument)
normalize(x) ==
    IF x.type = "BaseEKS" THEN Built(x.obj)
    ELSE IF x.type = "Tensor" THEN TypeError
    ELSE IF x.type = "int" \/ x.type = "float" THEN Built(ConstEKS(FMul(x.val, Num(1))))
    ELSE TypeError

\* the methods BaseEKS defines (lines 12-37)
BaseEKSMethods ==
    {"__add__", "__sub__", "__rsub__", "__mul__", "__div__", "__rdiv__", "__neg__"}

\* mutant of call_method: the reflected subtraction builds self - other
call_method_rsub_as_sub(name, self, other) ==
    LET o == normalize(other)
    IN IF o.err # "none" THEN o
       ELSE IF name = "__add__" THEN Built(AddEKS(self, o.obj))
       ELSE IF name = "__sub__" THEN Built(AddEKS(self, NegEKS(o.obj)))
       ELSE IF name = "__rsub__" THEN Built(AddEKS(self, NegEKS(o.obj)))
       ELSE IF name = "__mul__" THEN Built(MultEKS(self, o.obj))
       ELSE IF name = "__div__" THEN Built(DivEKS(self, o.obj))
       ELSE Built(DivEKS(o.obj, self))

\* lines 12-34: the method called name on self with the argument other
call_method(name, self, other) ==
    LET o == normalize(other)
    IN IF o.err # "none" THEN o
       ELSE IF name = "__add__" THEN Built(AddEKS(self, o.obj))
       ELSE IF name = "__sub__" THEN Built(AddEKS(self, NegEKS(o.obj)))
       ELSE IF name = "__rsub__" THEN Built(AddEKS(NegEKS(self), o.obj))
       ELSE IF name = "__mul__" THEN Built(MultEKS(self, o.obj))
       ELSE IF name = "__div__" THEN Built(DivEKS(self, o.obj))
       ELSE Built(DivEKS(o.obj, self))

\* the method Python 3 looks up for the operator op, reflected or not
Dunder(op, reflected) ==
    IF op = "+" THEN (IF reflected THEN "__radd__" ELSE "__add__")
    ELSE IF op = "-" THEN (IF reflected THEN "__rsub__" ELSE "__sub__")
    ELSE IF op = "*" THEN (IF reflected THEN "__rmul__" ELSE "__mul__")
    ELSE (IF reflected THEN "__rtruediv__" ELSE "__truediv__")

\* self op other (reflected = FALSE) or other op self (reflected = TRUE): the
\* operand of a raw type returns NotImplemented for a potential, so only the
\* method of the potential decides; with a potential on both sides the left
\* one is asked first
binary_op(op, reflected, self, other) ==
    IF reflected /\ other.type = "BaseEKS"
    THEN (IF Dunder(op, FALSE) \in BaseEKSMethods
          THEN call_method(Dunder(op, FALSE), other.obj, Operand("BaseEKS", Num(0), self))
          ELSE IF Dunder(op, TRUE) \in BaseEKSMethods
          THEN call_method(Dunder(op, TRUE), self, other)
          ELSE TypeError)
    ELSE IF Dunder(op, reflected) \in BaseEKSMethods
    THEN call_method(Dunder(op, reflected), self, other)
    ELSE IF ~reflected /\ other.type = "BaseEKS" /\ Dunder(op, TRUE) \in BaseEKSMethods
    THEN call_method(Dunder(op, TRUE), other.obj, Operand("BaseEKS", Num(0), self))
    ELSE TypeError

EksIdle ==
    /\ eks_obj = NoEKS
    /\ eks_last = NoCall
    /\ eks_eval = NoCall

\* the potentials a composition starts from
EksLeaves == {RhoEKS, TensorEKS(Num(3)), ConstEKS(Num(2))}

NewEKS(leaf) ==
    /\ eks_obj = NoEKS
    /\ eks_obj' = leaf
    /\ UNCHANGED <<eks_last, eks_eval>>

\* eks = eks op other, or eks = other op eks; an exception leaves eks as it was
BinaryOp(op, reflected, other) ==
    /\ eks_obj # NoEKS
    /\ Depth(eks_obj) < MaxDepth
    /\ LET c == binary_op(op, reflected, eks_obj, other)
       IN /\ eks_obj' = IF c.err = "none" THEN c.obj ELSE eks_obj
          /\ eks_last' = [via |-> "operator", op |-> op, reflected |-> reflected,
                          other |-> other, self |-> eks_obj, err |-> c.err, result |-> c.obj]
    /\ eks_eval' = NoCall

\* eks = eks.__div__(other), or eks = eks.__rdiv__(other), called by name
CallDiv(reflected, other) ==
    /\ eks_obj # NoEKS
    /\ Depth(eks_obj) < MaxDepth
    /\ LET c == call_method(IF reflected THEN "__rdiv__" ELSE "__div__", eks_obj, other)
       IN /\ eks_obj' = IF c.err = "none" THEN c.obj ELSE eks_obj
          /\ eks_last' = [via |-> "call", op |-> "/", reflected |-> reflected,
                          other |-> other, self |-> eks_obj, err |-> c.err, result |-> c.obj]
    /\ eks_eval' = NoCall

\* lines 36-37: eks = -eks
Negate ==
    /\ eks_obj # NoEKS
    /\ Depth(eks_obj) < MaxDepth
    /\ eks_obj' = NegEKS(eks_obj)
    /\ eks_last' = [via |-> "operator", op |-> "neg", reflected |-> FALSE,
                    other |-> Operand("BaseEKS", Num(0), eks_obj), self |-> eks_obj,
                    err |-> "none", result |-> NegEKS(eks_obj)]
    /\ eks_eval' = NoCall

\* the densities a potential is evaluated on
Densities == {Num(0), Num(2), Frac(0 - 1, 2)}

\* eks(density)
Evaluate(density) ==
    /\ eks_obj # NoEKS
    /\ eks_eval' = [tree |-> eks_obj, density |-> density, value |-> forward(eks_obj, density)]
    /\ UNCHANGED <<eks_obj, eks_last>>

(***************************************************************************)
(* Specifications: one per component; the other components stay idle.      *)
(***************************************************************************)
SolverNext == EqStep /\ UNCHANGED <<ecoeffVars, packVars, hamVars, introVars, eksVars>>

SolverSpecInit == SolverInit /\ EcoeffIdle /\ PackIdle /\ HamIdle /\ IntrospectIdle /\ EksIdle

SpecSolver == SolverSpecInit /\ [][SolverNext]_vars
FairSpecSolver == SpecSolver /\ WF_vars(EqStep)

EcoeffSpecInit == SolverIdle /\ EcoeffIdle /\ PackIdle /\ HamIdle /\ IntrospectIdle /\ EksIdle

EcoeffNext ==
    \/ \E mol \in Mols :
           NewEcoeff(mol) /\ UNCHANGED <<solverVars, packVars, hamVars, introVars, eksVars>>
    \/ GetCoulomb /\ UNCHANGED <<solverVars, packVars, hamVars, introVars, eksVars>>
    \/ \E rst \in RArgs, n \in NArgs :
           /\ GetRcoeff(rst[1], rst[2], rst[3], n)
           /\ UNCHANGED <<solverVars, packVars, hamVars, introVars, eksVars>>

SpecEcoeff == EcoeffSpecInit /\ [][EcoeffNext]_vars

PackSpecInit == SolverIdle /\ EcoeffIdle /\ PackIdle /\ HamIdle /\ IntrospectIdle /\ EksIdle

PackNext ==
    \/ /\ pk_pairs2 = <<>>
       /\ \E p \in Powers \X Powers \X Powers, q \in Powers \X Powers \X Powers :
              PackPairs(<<p, q>>) /\ UNCHANGED <<solverVars, ecoeffVars, hamVars, introVars, eksVars>>
    \/ UnpackAll /\ UNCHANGED <<solverVars, ecoeffVars, hamVars, introVars, eksVars>>

SpecPack == PackSpecInit /\ [][PackNext]_vars

\* the generator: one construction with any arguments, then any calls
HamSpecInit == SolverIdle /\ EcoeffIdle /\ PackIdle /\ HamIdle /\ IntrospectIdle /\ EksIdle

HamNext ==
    \/ /\ gen_result = NoCall
       /\ \E a \in HamArgs :
              NewHamiltonGenerator(a) /\ UNCHANGED <<solverVars, ecoeffVars, packVars, introVars, eksVars>>
    \/ \E vext \in VextArgs :
           GetHamiltonian(vext) /\ UNCHANGED <<solverVars, ecoeffVars, packVars, introVars, eksVars>>
    \/ GetOverlap /\ UNCHANGED <<solverVars, ecoeffVars, packVars, introVars, eksVars>>
    \/ /\ gen # NoObj
       /\ \E dm \in DmArgs(gen.nbasis) :
              Dm2Dens(dm) /\ UNCHANGED <<solverVars, ecoeffVars, packVars, introVars, eksVars>>

SpecHam == HamSpecInit /\ [][HamNext]_vars

\* parameter introspection on a generator with one primitive per basis and on
\* a grid
IntrospectHamArgs ==
    {a \in HamArgs : /\ ~a.nelmts.tensor
                     /\ a.nelmts.v[1] = 1
                     /\ a.natoms = 1
                     /\ Len(a.atomzs) = 1
                     /\ a.normalize_elmts
                     /\ a.asym = 0}

IntrospectSpecInit == SolverIdle /\ EcoeffIdle /\ PackIdle /\ HamIdle /\ IntrospectIdle /\ EksIdle

IntrospectNext ==
    \/ /\ gen_result = NoCall
       /\ \E a \in IntrospectHamArgs :
              NewHamiltonGenerator(a) /\ UNCHANGED <<solverVars, ecoeffVars, packVars, introVars, eksVars>>
    \/ \E atomgrid \in AtomGrids, natoms \in 1..MaxAtoms :
           NewGrid(atomgrid, natoms) /\ UNCHANGED <<solverVars, ecoeffVars, packVars, hamVars, eksVars>>
    \/ \E methodname \in MethodNames, prefix \in Prefixes :
           /\ GetParamNames(methodname, prefix)
           /\ UNCHANGED <<solverVars, ecoeffVars, packVars, hamVars, eksVars>>
    \/ \E methodname \in MethodNames :
           GridGetParams(methodname) /\ UNCHANGED <<solverVars, ecoeffVars, packVars, hamVars, eksVars>>
    \/ \E methodname \in MethodNames :
           GridSetParams(methodname) /\ UNCHANGED <<solverVars, ecoeffVars, packVars, hamVars, eksVars>>

SpecIntrospect == IntrospectSpecInit /\ [][IntrospectNext]_vars

\* potentials: a leaf, then any compositions and evaluations
EksSpecInit == SolverIdle /\ EcoeffIdle /\ PackIdle /\ HamIdle /\ IntrospectIdle /\ EksIdle

EksNext ==
    \/ \E leaf \in EksLeaves :
           NewEKS(leaf) /\ UNCHANGED <<solverVars, ecoeffVars, packVars, hamVars, introVars>>
    \/ \E op \in {"+", "-", "*", "/"}, reflected \in BOOLEAN, other \in Operands :
           /\ BinaryOp(op, reflected, other)
           /\ UNCHANGED <<solverVars, ecoeffVars, packVars, hamVars, introVars>>
    \/ \E reflected \in BOOLEAN, other \in Operands :
           /\ CallDiv(reflected, other)
           /\ UNCHANGED <<solverVars, ecoeffVars, packVars, hamVars, introVars>>
    \/ Negate /\ UNCHANGED <<solverVars, ecoeffVars, packVars, hamVars, introVars>>
    \/ \E density \in Densities :
           Evaluate(density) /\ UNCHANGED <<solverVars, ecoeffVars, packVars, hamVars, introVars>>

SpecEks == EksSpecInit /\ [][EksNext]_vars

(***************************************************************************)
(* Claims.                                                                 *)
(***************************************************************************)
\* the iterate after k applications of the map, starting from y
RECURSIVE Iterate(_, _, _, _)
Iterate(m, y, x, k) == IF k = 0 THEN y ELSE Iterate(m, ApplyMap(m, y, x), x, k - 1)

\* least k with 2^k >= d
RECURSIVE Log2Ceil(_)
Log2Ceil(d) == IF d <= 1 THEN 0 ELSE 1 + Log2Ceil((d + 1) \div 2)

\* the number of applications after which a contraction started with first
\* residual r0 has brought the residual under any tolerance >= 1
IterBound(c) == Log2Ceil(Abs(ApplyMap(c.map, c.y0, c.x) - c.y0) + 1) + 2

Terminal == {"Converged", "Exhausted"}

\* C1: the solver starts in Iterating and ends in exactly one of Converged or
\* Exhausted for every map, tolerance and maximum iteration count: it is
\* Converged only with the last residual below the tolerance, Exhausted only
\* when the maximum iteration count was reached with the residual not below
\* the tolerance, and when Exhausted it holds the last iterate as its result
\* and has not raised.
C1_SolverStates ==
    /\ eq_state \in {"Iterating"} \cup Terminal
    /\ (eq_iter = 0 => eq_state = "Iterating")
    /\ eq_iter <= eq_cfg.maxiter
    /\ (eq_state = "Iterating" => eq_iter < eq_cfg.maxiter)
    /\ (eq_state = "Converged" => eq_iter >= 1 /\ eq_resid >= 0 /\ eq_resid < eq_cfg.tol)
    /\ (eq_state = "Exhausted" =>
            /\ eq_iter = eq_cfg.maxiter
            /\ eq_resid >= eq_cfg.tol
            /\ eq_y = Iterate(eq_cfg.map, eq_cfg.y0, eq_cfg.x, eq_cfg.maxiter)
            /\ eq_raised = FALSE)
    /\ (eq_state \in Terminal =>
            eq_resid = Abs(eq_y - Iterate(eq_cfg.map, eq_cfg.y0, eq_cfg.x, eq_iter - 1)))

C1_Witness ==
    /\ eq_state = "Exhausted"
    /\ eq_iter >= 3
    /\ eq_y # eq_cfg.y0

RECURSIVE RRef(_, _, _, _, _)
RRef(obj, r, s, t, n) ==
    IF r < 0 \/ s < 0 \/ t < 0 THEN 0
    ELSE IF r = 0 /\ s = 0 /\ t = 0
    THEN Pow(-2 * obj.gamma, n) * boys(n, obj.gamma * obj.rcd_sq)
    ELSE IF r > 0
    THEN (r - 1) * RRef(obj, r - 2, s, t, n + 1) + obj.rcd[1] * RRef(obj, r - 1, s, t, n + 1)
    ELSE IF s > 0
    THEN (s - 1) * RRef(obj, r, s - 2, t, n + 1) + obj.rcd[2] * RRef(obj, r, s - 1, t, n + 1)
    ELSE (t - 1) * RRef(obj, r, s, t - 2, n + 1) + obj.rcd[3] * RRef(obj, r, s, t - 1, n + 1)

HasNegative(args) == args[1] < 0 \/ args[2] < 0 \/ args[3] < 0

\* C3: get_rcoeff(r, s, t, n) with any of r, s, t negative returns 0, for every
\* n, without a recursive call and without adding or changing an entry of
\* r_memory.
C3_NegativeIndexReturnsZero ==
    (rc_last # NoCall /\ HasNegative(rc_last.args)) =>
        /\ rc_last.calls = 0
        /\ rc_last.writes = <<>>
        /\ rc_last.after = rc_last.before
        /\ rc_last.ret = 0

C3_Witness ==
    /\ rc_last # NoCall
    /\ rc_last.args[1] = 0 /\ rc_last.args[2] = 1 /\ rc_last.args[3] = -1
    /\ rc_last.args[4] = 1
    /\ rc_last.before # EmptyMem
    /\ rc_last.ret = 0

PackedPowers(ijks, a, b) ==
    [k |-> ijks[b][1], l |-> ijks[b][2], m |-> ijks[b][3],
     u |-> ijks[a][1], v |-> ijks[a][2], w |-> ijks[a][3]]

\* C10: for powers in 0..7 two primitive pairs get the same flat value only
\* when their six powers are equal, and _unpack_ijk_flat_value returns exactly
\* the six powers that were packed.
C10_PackingAliasFree ==
    pk_pairs2 # <<>> =>
        /\ \A a \in 1..2, b \in 1..2, c \in 1..2, d \in 1..2 :
               pk_pairs2[a][b] = pk_pairs2[c][d] =>
                   PackedPowers(pk_ijks, a, b) = PackedPowers(pk_ijks, c, d)
        /\ pk_unpacked # <<>> =>
               \A a \in 1..2, b \in 1..2 :
                   \E i \in 1..Len(pk_unique) :
                       /\ pk_unique[i] = pk_pairs2[a][b]
                       /\ pk_unpacked[i] = PackedPowers(pk_ijks, a, b)

C10_Witness ==
    /\ pk_unpacked # <<>>
    /\ Len(pk_unique) = 4
    /\ pk_ijks[1] = <<7, 0, 6>>
    /\ pk_ijks[2] = <<0, 7, 1>>
    /\ pk_unpacked[4] = [k |-> 7, l |-> 0, m |-> 6, u |-> 7, v |-> 0, w |-> 6]

\* the grouping does not add up to the number of primitives
GroupMismatch(a) ==
    IF a.nelmts.tensor THEN SeqSum(a.nelmts.v) # a.nelmtstot
    ELSE a.nelmtstot % a.nelmts.v[1] # 0

\* C4: a construction whose group sizes do not add up to nelmtstot (int
\* nelmts: nelmtstot not a multiple of it; tensor nelmts: its sum differs
\* from nelmtstot) raises, and it raises before any integral is evaluated.
C4_GroupMismatchRejected ==
    (gen_result # NoCall /\ GroupMismatch(gen_result.args)) =>
        (gen_result.err # "none" /\ ~gen_result.integrals)

\* C5: a construction with a number of atom positions different from the
\* number of nuclear charges raises before any integral is evaluated, and no
\* generator (hence no Hamiltonian) comes out of it.
C5_AtomCountMismatchRejected ==
    (gen_result # NoCall /\ gen_result.args.natoms # Len(gen_result.args.atomzs)) =>
        (gen_result.err # "none" /\ ~gen_result.integrals /\ gen = NoObj)

Recognized(target) ==
    IF target = "gen" THEN {"get_hamiltonian", "get_overlap", "dm2dens"}
    ELSE {"solve_poisson", "get_dvolume"}

\* C6: getparamnames of the generator, getparams and setparams of the grid
\* raise for every method name they do not recognize, and the component is
\* then exactly as it was before the call.
C6_UnknownNameRaises ==
    (/\ ip_last # NoCall
     /\ ip_last.method \in {"getparamnames", "getparams", "setparams"}
     /\ ip_last.name \notin Recognized(ip_last.target)) =>
        /\ ip_last.err # "none"
        /\ ip_last.target = "gen" => gen = ip_last.before
        /\ ip_last.target = "grid" => grid = ip_last.before

C6_Witness ==
    /\ ip_last # NoCall
    /\ gen # NoObj
    /\ grid # NoObj
    /\ grid.natomgrid_get_dvolume.set
    /\ ip_last.target = "grid"
    /\ ip_last.method = "setparams"
    /\ ip_last.name = "interpolate"
    /\ ip_last.err = "RuntimeError"

PureMethods == {"get_hamiltonian", "dm2dens"}

\* C7: after any calls of get_hamiltonian and dm2dens the generator is the
\* one the constructor built, every result is a newly built tensor, and two
\* calls of the same method with the same argument return the same result.
C7_CallsArePure ==
    /\ gen = gen_built
    /\ \A i \in 1..Len(gen_calls) :
           gen_calls[i].method \in PureMethods => gen_calls[i].storage = "new"
    /\ (/\ Len(gen_calls) = 2
        /\ gen_calls[1].method \in PureMethods
        /\ gen_calls[1].method = gen_calls[2].method
        /\ gen_calls[1].arg = gen_calls[2].arg) => gen_calls[1].ret = gen_calls[2].ret

C7_Witness ==
    /\ gen # NoObj
    /\ gen.nbasis = 2
    /\ Len(gen_calls) = 2
    /\ gen_calls[1].method = "get_hamiltonian"
    /\ gen_calls[2].method = "get_hamiltonian"
    /\ gen_calls[1].arg = <<2, 4>>
    /\ gen_calls[2].arg = <<2, 4>>
    /\ gen_calls[2].ret # gen.kin_coul_mat

IsSymmetric(M) == \A a \in 1..Len(M), b \in 1..Len(M) : M[a][b] = M[b][a]

\* C8: the stored kin_coul_mat and olp_mat and every matrix returned by
\* get_hamiltonian equal their own transpose, also when the contracted
\* matrices and the potential matrix they come from do not.
C8_FinalMatricesSymmetric ==
    /\ gen # NoObj => (IsSymmetric(gen.kin_coul_mat) /\ IsSymmetric(gen.olp_mat))
    /\ \A i \in 1..Len(gen_calls) :
           gen_calls[i].method = "get_hamiltonian" => IsSymmetric(gen_calls[i].ret)

C8_Witness ==
    /\ gen # NoObj
    /\ gen.nbasis = 2
    /\ ~IsSymmetric(contract(gen, gen.kin_coul_elmts))
    /\ ~IsSymmetric(contract(gen, gen.olp_elmts))
    /\ Len(gen_calls) > 0
    /\ gen_calls[Len(gen_calls)].method = "get_hamiltonian"
    /\ gen_calls[Len(gen_calls)].arg = <<2, 4>>
    /\ gen_calls[Len(gen_calls)].ret # gen.kin_coul_mat

\* leaf is the operand of the composed node: one of its children, or the
\* child of the NegEKS that a subtraction wraps around it
HasOperand(result, leaf) ==
    \/ result.a[1] = leaf
    \/ result.b[1] = leaf
    \/ (result.b[1].kind = "NegEKS" /\ result.b[1].a[1] = leaf)

\* C11: composing a potential with an operand through +, -, *, / or a
\* reflected form succeeds for an int or float (a ConstEKS leaf of the value),
\* a tensor (a TensorEKS leaf of the tensor) and a potential (used unchanged),
\* and raises TypeError for every other type.
C11_OperandBecomesLeaf ==
    (eks_last # NoCall /\ eks_last.via = "operator" /\ eks_last.op # "neg") =>
        IF eks_last.other.type \in {"int", "float"}
        THEN eks_last.err = "none"
                 /\ HasOperand(eks_last.result, ConstEKS(eks_last.other.val))
        ELSE IF eks_last.other.type = "Tensor"
        THEN eks_last.err = "none"
                 /\ HasOperand(eks_last.result, TensorEKS(eks_last.other.val))
        ELSE IF eks_last.other.type = "BaseEKS"
        THEN eks_last.err = "none" /\ HasOperand(eks_last.result, eks_last.other.obj)
        ELSE eks_last.err = "TypeError"

\* the value of a potential on a density, by the kind of its node
RECURSIVE Denote(_, _)
Denote(e, d) ==
    IF e.kind \in {"ConstEKS", "TensorEKS"} THEN e.val
    ELSE IF e.kind = "RhoEKS" THEN d
    ELSE IF e.kind = "NegEKS" THEN FNeg(Denote(e.a[1], d))
    ELSE IF e.kind = "AddEKS" THEN FAdd(Denote(e.a[1], d), Denote(e.b[1], d))
    ELSE IF e.kind = "MultEKS" THEN FMul(Denote(e.a[1], d), Denote(e.b[1], d))
    ELSE FDiv(Denote(e.a[1], d), Denote(e.b[1], d))

OperandValue(x, d) == IF x.type = "BaseEKS" THEN Denote(x.obj, d) ELSE x.val

BlockSum(g, mat) ==
    LET first(a) == 1 + SeqSum(SubSeq(g.nelmts.v, 1, a - 1))
    IN [a \in 1..g.nbasis |-> [b \in 1..g.nbasis |->
           SeqSum([i \in 1..g.nelmts.v[a] |-> SeqSum([j \in 1..g.nelmts.v[b] |->
               g.coeffs2[first(a) + i - 1][first(b) + j - 1]
                   * mat[first(a) + i - 1][first(b) + j - 1]])])]]

\* the generator g with the int k in the place of its tensor nelmts
WithUniform(g, k) == [g EXCEPT !.nelmts = [tensor |-> FALSE, v |-> <<k>>], !.csnelmts = <<>>]

\* C12: for a tensor nelmts that sums to nelmtstot, _contract of the
\* primitive matrices is the block sum, and when all its sizes are one k it
\* is the matrix the int nelmts = k gives.
C12_ContractIsBlockSum ==
    (gen # NoObj /\ gen.nelmts.tensor /\ SeqSum(gen.nelmts.v) = gen.nelmtstot) =>
        /\ contract(gen, gen.kin_coul_elmts) = BlockSum(gen, gen.kin_coul_elmts)
        /\ contract(gen, gen.olp_elmts) = BlockSum(gen, gen.olp_elmts)
        /\ (\A a \in 1..gen.nbasis : gen.nelmts.v[a] = gen.nelmts.v[1]) =>
               /\ contract(gen, gen.kin_coul_elmts)
                      = contract(WithUniform(gen, gen.nelmts.v[1]), gen.kin_coul_elmts)
               /\ contract(gen, gen.olp_elmts)
                      = contract(WithUniform(gen, gen.nelmts.v[1]), gen.olp_elmts)

C12_Witness ==
    /\ gen # NoObj
    /\ gen.nelmts.tensor
    /\ gen.nelmts.v = <<1, 2>>
    /\ gen.nelmtstot = 3
    /\ gen_result.args.asym = 1
    /\ contract(gen, gen.olp_elmts) = BlockSum(gen, gen.olp_elmts)
    /\ contract(gen, gen.olp_elmts)[2][1] # 0

\* C13: for non-negative r, s, t, n get_rcoeff terminates and returns the
\* value of the recursion R(0,0,0,n) = (-2 gamma)^n F_n(gamma |disp|^2),
\* R(r,s,t,n) = (r-1) R(r-2,s,t,n+1) + disp_x R(r-1,s,t,n+1) for r > 0 (then
\* the same on s, then on t), and the value a call on an empty cache returns.
C13_RcoeffIsRecursion ==
    (rc_last # NoCall /\ ~HasNegative(rc_last.args)) =>
        /\ rc_last.calls >= 0
        /\ rc_last.ret = RRef(ecoeff, rc_last.args[1], rc_last.args[2],
                              rc_last.args[3], rc_last.args[4])
        /\ rc_last.ret = get_rcoeff(ecoeff, EmptyMem, rc_last.args[1], rc_last.args[2],
                                    rc_last.args[3], rc_last.args[4]).ret

\* a request of order 2 in x on a cache that get_coulomb filled, served
\* partly from it, with a value in which both terms of the recursion count
C13_Witness ==
    /\ rc_last # NoCall
    /\ rc_last.args = <<2, 0, 0, 1>>
    /\ rc_last.before # EmptyMem
    /\ rc_last.calls > 0
    /\ ecoeff.rcd[1] # 0
    /\ rc_last.ret # 0
    /\ rc_last.ret # RRef(ecoeff, 0, 0, 0, 2)
    /\ rc_last.ret # ecoeff.rcd[1] * RRef(ecoeff, 1, 0, 0, 2)

\* the non-negative keys the value of key is computed from (lines 305-313)
ComputedFrom(key) ==
    LET r == key[1]
        s == key[2]
        t == key[3]
        n == key[4]
        children == IF r > 0 THEN {<<r - 2, s, t, n + 1>>, <<r - 1, s, t, n + 1>>}
                    ELSE IF s > 0 THEN {<<r, s - 2, t, n + 1>>, <<r, s - 1, t, n + 1>>}
                    ELSE IF t > 0 THEN {<<r, s, t - 2, n + 1>>, <<r, s, t - 1, n + 1>>}
                    ELSE {}
    IN {c \in children : ~HasNegative(c)}

\* C14: r_memory memoizes per key: a request saves every key at most once
\* and none that was there, keeps every entry as it was, answers a cached
\* key with the stored value and no recursive call, and the cache holds only
\* keys of non-negative indices together with the keys they were computed
\* from.
C14_MemoizedPerKey ==
    /\ \A key \in DOMAIN r_memory :
           /\ \A i \in 1..4 : key[i] >= 0
           /\ ComputedFrom(key) \subseteq DOMAIN r_memory
    /\ rc_last # NoCall =>
           /\ \A i, j \in 1..Len(rc_last.writes) :
                  rc_last.writes[i] = rc_last.writes[j] => i = j
           /\ \A i \in 1..Len(rc_last.writes) : rc_last.writes[i] \notin DOMAIN rc_last.before
           /\ \A key \in DOMAIN rc_last.before :
                  key \in DOMAIN rc_last.after /\ rc_last.after[key] = rc_last.before[key]
           /\ DOMAIN rc_last.after =
                  DOMAIN rc_last.before \cup {rc_last.writes[i] : i \in 1..Len(rc_last.writes)}
           /\ key_format(rc_last.args[1], rc_last.args[2], rc_last.args[3], rc_last.args[4])
                  \in DOMAIN rc_last.before =>
                  /\ rc_last.calls = 0
                  /\ rc_last.writes = <<>>
                  /\ rc_last.ret = rc_last.before[key_format(rc_last.args[1],
                                        rc_last.args[2], rc_last.args[3], rc_last.args[4])]

\* a request for a key of positive order that get_coulomb had cached
C14_Witness ==
    /\ rc_last # NoCall
    /\ rc_last.args[1] + rc_last.args[2] + rc_last.args[3] >= 2
    /\ ~HasNegative(rc_last.args)
    /\ key_format(rc_last.args[1], rc_last.args[2], rc_last.args[3], rc_last.args[4])
           \in DOMAIN rc_last.before
    /\ rc_last.calls = 0
    /\ rc_last.ret # 0

\* C16: for the names solve_poisson and get_dvolume of BeckeMultiGrid,
\* setparams(name, *getparams(name)) succeeds whatever was called before and
\* leaves atompos, _rgrid, _dvolume and the atom grid's parameters as they
\* were before the call.
C16_SetParamsOfGetParams ==
    (/\ ip_last # NoCall
     /\ ip_last.target = "grid"
     /\ ip_last.method = "setparams"
     /\ ip_last.name \in {"solve_poisson", "get_dvolume"}
     /\ ip_last.ret = grid_getparams(ip_last.before, ip_last.name).ret) =>
        /\ ip_last.err = "none"
        /\ grid.atompos = ip_last.before.atompos
        /\ grid.rgrid = ip_last.before.rgrid
        /\ grid.dvolume = ip_last.before.dvolume
        /\ grid.atomgrid = ip_last.before.atomgrid

====
